---- MODULE Spec2Model ----
(***************************************************************************)
(* Melbourne housing pipeline: data_cleaning.py, feature_engineering.py    *)
(* generate_insights.py and create_dashboard.py, modelled as four batch     *)
(* programs that hand tables to each other through CSV files.              *)
(*                                                                         *)
(* A table (pandas DataFrame) is a sequence of rows; a row is a record of   *)
(* cells plus idx, its pandas index label.  A cell is <<>> when the value   *)
(* is missing (NaN) and <<v>> when it holds v.  Prices are integers; a      *)
(* median of integers is a multiple of 1/2 and is held doubled (the 2 in    *)
(* the names Median2, ...) so that no precision is lost before rounding.    *)
(***************************************************************************)
EXTENDS Integers, Sequences, FiniteSets, TLC

VARIABLES
    pc,            \* position of the running script's main()
    df_raw,        \* data_cleaning: the raw table read from melb_data.csv
    df_clean,      \* data_cleaning: first component of clean_data's result
    stats,         \* data_cleaning: second component of clean_data's result
    df_reclean,    \* clean_data applied to its own output: the table
    stats_reclean, \* clean_data applied to its own output: the statistics
    cleaned_csv,   \* feature_engineering: melb_data_cleaned.csv as read
    top_n,         \* feature_engineering: the n of get_top_suburbs
    df_featured,   \* feature_engineering: main's df after add_features
    top_suburbs,   \* feature_engineering: main's top_suburbs
    df_analysis,   \* feature_engineering: main's df_analysis
    outliers,      \* feature_engineering: main's underpriced / overpriced counts
    analysis_csv,  \* feature_engineering: melb_data_analysis.csv as written
    ins_df,        \* generate_insights: melb_data_analysis.csv as read
    comparison,    \* generate_insights: the table suburb_comparison returned
    gaps,          \* generate_insights: main's gaps
    gap_lines,     \* generate_insights: what main printed for each gap
    type_premium,  \* generate_insights: main's type_premium
    br_premium,    \* generate_insights: main's br_premium
    quarterly,     \* generate_insights: main's quarterly
    growth,        \* generate_insights: main's growth
    dash_df,       \* create_dashboard: melb_data_analysis.csv as read
    trend_sheet    \* create_dashboard: the data rows of the "Market Trends" sheet

varsClean == <<df_raw, df_clean, stats, df_reclean, stats_reclean>>
varsFe == <<cleaned_csv, top_n, df_featured, top_suburbs, df_analysis, outliers, analysis_csv>>
varsIns == <<ins_df, comparison, gaps, gap_lines, type_premium, br_premium, quarterly, growth>>
varsDash == <<dash_df, trend_sheet>>

-----------------------------------------------------------------------------
(* Cells and element-wise pandas comparisons                                *)

NaN == <<>>
Val(v) == <<v>>
IsNa(c) == c = NaN
NotNa(c) == c # NaN

\* Series != Series: NaN compares unequal to everything, itself included
CellNe(a, b) == IsNa(a) \/ IsNa(b) \/ a # b
\* Series <= scalar and Series > scalar: False on NaN
CellLe(c, k) == NotNa(c) /\ c[1] <= k
CellGt(c, k) == NotNa(c) /\ c[1] > k

RECURSIVE SumSeq(_)
SumSeq(s) == IF s = <<>> THEN 0 ELSE Head(s) + SumSeq(Tail(s))

\* round-half-to-even of num/den, den > 0 (numpy .round(0), Python round())
RoundHalfEven(num, den) ==
    LET q == num \div den
        r2 == 2 * (num - q * den)
    IN  IF r2 < den THEN q
        ELSE IF r2 > den THEN q + 1
        ELSE IF q % 2 = 0 THEN q ELSE q + 1

-----------------------------------------------------------------------------
(* str.strip() and str.title() on a string held as a sequence of characters *)

Alphabet == {" ", "a", "A"}
IsSpace(c) == c = " "
IsCased(c) == c \in {"a", "A"}
ToUpper(c) == IF c = "a" THEN "A" ELSE c
ToLower(c) == IF c = "A" THEN "a" ELSE c

RECURSIVE LStrip(_)
LStrip(s) == IF s # <<>> /\ IsSpace(Head(s)) THEN LStrip(Tail(s)) ELSE s

RECURSIVE RStrip(_)
RStrip(s) ==
    IF s # <<>> /\ IsSpace(s[Len(s)]) THEN RStrip(SubSeq(s, 1, Len(s) - 1)) ELSE s

Strip(s) == RStrip(LStrip(s))

\* a character is title-cased unless the character before it is cased,
\* in which case it is lower-cased
Title(s) ==
    [i \in 1..Len(s) |->
        IF i > 1 /\ IsCased(s[i - 1]) THEN ToLower(s[i]) ELSE ToUpper(s[i])]

\* Series.str.strip().str.title(): missing stays missing
StrStripTitle(c) == IF IsNa(c) THEN NaN ELSE Val(Title(Strip(c[1])))

-----------------------------------------------------------------------------
(* data_cleaning.py                                                         *)

MaxLandsize == 50000

\* plausible slip: "< 0" for "<= 0"
InvalidLandsizeStrict(r) == CellLe(r.Landsize, -1)

InvalidLandsize(r) == CellLe(r.Landsize, 0)

\* plausible slip: the second mask repeats the rows of the first
ExtremeLandsizeOverlapping(r) ==
    CellGt(r.Landsize, MaxLandsize) \/ CellLe(r.Landsize, 0)

ExtremeLandsize(r) == CellGt(r.Landsize, MaxLandsize)

SuburbNeedsFix(r) == CellNe(StrStripTitle(r.Suburb), r.Suburb)

FillNa(c, v) == IF IsNa(c) THEN Val(v) ELSE c

Columns == {"Suburb", "Landsize", "Car"}
NotNaCells(r) == Cardinality({f \in Columns : NotNa(r[f])})

\* df.notna().mean().mean() * 100, rounded to one decimal, held in tenths;
\* NaN for a table without rows
Completeness(df) ==
    IF Len(df) = 0 THEN NaN
    ELSE Val(RoundHalfEven(
             1000 * SumSeq([i \in 1..Len(df) |-> NotNaCells(df[i])]),
             Len(df) * Cardinality(Columns)))

NormalizeSuburbs(df) ==
    [i \in 1..Len(df) |-> [df[i] EXCEPT !.Suburb = StrStripTitle(@)]]

KeepValidLandsize(df) ==
    SelectSeq(df, LAMBDA r : ~(InvalidLandsize(r) \/ ExtremeLandsize(r)))

FillCar(df) == [i \in 1..Len(df) |-> [df[i] EXCEPT !.Car = FillNa(@, 0)]]

CleanTable(df) == FillCar(KeepValidLandsize(NormalizeSuburbs(df)))

\* the caller's table after clean_data(df): clean_data works on df.copy()
InputAfterCleanData(df) == df

CleanStats(df) ==
    LET out == CleanTable(df)
    IN  [initial_rows |-> Len(df),
         final_rows |-> Len(out),
         removed_rows |-> Len(df) - Len(out),
         suburb_name_fixes |-> Len(SelectSeq(df, SuburbNeedsFix)),
         removed_invalid_landsize |->
             Len(SelectSeq(NormalizeSuburbs(df), InvalidLandsize))
             + Len(SelectSeq(NormalizeSuburbs(df), ExtremeLandsize)),
         initial_completeness_pct |-> Completeness(df),
         final_completeness_pct |-> Completeness(out)]

\* bounds of the raw table
MaxRawRows == 2
MaxStrLen == 2

Strings == UNION {[1..n -> Alphabet] : n \in 0..MaxStrLen}
RawSuburbs == {NaN} \cup {Val(s) : s \in Strings}
RawLandsizes == {NaN, Val(-1), Val(0), Val(1), Val(MaxLandsize), Val(MaxLandsize + 1)}
RawCars == {NaN, Val(2)}

RawRow == [Suburb : {NaN, Val(<<" ", "a">>), Val(<<"A">>)},
           Landsize : RawLandsizes, Car : RawCars]

\* rows for the suburb-name rules: every short string, land sizes 0 and 1
RawNameRow == [Suburb : RawSuburbs, Landsize : {Val(0), Val(1)}, Car : {Val(2)}]

\* read_csv gives the rows the RangeIndex labels 0, 1, ...
WithRangeIndex(rows) ==
    [i \in 1..Len(rows) |-> [f \in DOMAIN rows[i] \cup {"idx"} |->
                                 IF f = "idx" THEN i - 1 ELSE rows[i][f]]]

TablesOf(Rows, maxRows) ==
    {WithRangeIndex(t) : t \in UNION {[1..n -> Rows] : n \in 0..maxRows}}

NoTable == <<>>
NoStats == [initial_rows |-> 0]

CleanIdle ==
    /\ df_clean = NoTable
    /\ stats = NoStats
    /\ df_reclean = NoTable
    /\ stats_reclean = NoStats

\* the variables of feature_engineering.py while another script runs
FeIdle ==
    /\ cleaned_csv = NoTable
    /\ top_n = 0
    /\ df_featured = NoTable
    /\ top_suburbs = <<>>
    /\ df_analysis = NoTable
    /\ outliers = <<>>
    /\ analysis_csv = NoTable

\* the variables of generate_insights.py while another script runs
InsIdle ==
    /\ ins_df = NoTable
    /\ comparison = NoTable
    /\ gaps = <<>>
    /\ gap_lines = <<>>
    /\ type_premium = NoTable
    /\ br_premium = NoTable
    /\ quarterly = NoTable
    /\ growth = <<>>

\* the variables of create_dashboard.py while another script runs
DashIdle ==
    /\ dash_df = NoTable
    /\ trend_sheet = NoTable

InitClean ==
    /\ pc = "clean_start"
    /\ df_raw \in TablesOf(RawRow, MaxRawRows)
    /\ CleanIdle
    /\ FeIdle
    /\ InsIdle
    /\ DashIdle

InitCleanNames ==
    /\ pc = "clean_start"
    /\ df_raw \in TablesOf(RawNameRow, MaxRawRows)
    /\ CleanIdle
    /\ FeIdle
    /\ InsIdle
    /\ DashIdle

\* main(): load, audit, df_clean, stats = clean_data(df), save
CleanMain ==
    /\ pc = "clean_start"
    /\ df_clean' = CleanTable(df_raw)
    /\ stats' = CleanStats(df_raw)
    /\ df_raw' = InputAfterCleanData(df_raw)
    /\ pc' = "cleaned"
    /\ UNCHANGED <<df_reclean, stats_reclean, varsFe, varsIns, varsDash>>

\* clean_data called again on the table it returned
Reclean ==
    /\ pc = "cleaned"
    /\ df_reclean' = CleanTable(df_clean)
    /\ stats_reclean' = CleanStats(df_clean)
    /\ df_clean' = InputAfterCleanData(df_clean)
    /\ pc' = "recleaned"
    /\ UNCHANGED <<df_raw, stats, varsFe, varsIns, varsDash>>

NextClean == CleanMain \/ Reclean

vars == <<pc, varsClean, varsFe, varsIns, varsDash>>

SpecClean == InitClean /\ [][NextClean]_vars
SpecCleanNames == InitCleanNames /\ [][NextClean]_vars

-----------------------------------------------------------------------------
(* Claims about clean_data                                                  *)

Cleaned == pc \in {"cleaned", "recleaned"}
RowsOf(df) == {df[i] : i \in 1..Len(df)}
IdxOf(df) == {df[i].idx : i \in 1..Len(df)}

\* C1 as stated: every record of the cleaned output has a land size that is
\* present, greater than 0 and at most 50,000.
C1_AllOutputLandsizeInRange ==
    Cleaned => \A r \in RowsOf(df_clean) :
        /\ NotNa(r.Landsize)
        /\ r.Landsize[1] > 0
        /\ r.Landsize[1] <= 50000

\* C1 amended: every record of the cleaned output whose land size is present
\* has 0 < land size <= 50,000, and every raw record whose land size is
\* missing is still in the output, its land size still missing.
C1_PresentLandsizeInRange ==
    Cleaned =>
        /\ \A r \in RowsOf(df_clean) :
               NotNa(r.Landsize) => (r.Landsize[1] > 0 /\ r.Landsize[1] <= 50000)
        /\ \A r \in RowsOf(df_raw) :
               IsNa(r.Landsize) =>
                   \E o \in RowsOf(df_clean) : o.idx = r.idx /\ IsNa(o.Landsize)

C1_Witness ==
    /\ pc = "cleaned"
    /\ Len(df_clean) < Len(df_raw)
    /\ \E r \in RowsOf(df_clean) : IsNa(r.Landsize)
    /\ \E r \in RowsOf(df_raw) : r.Landsize = Val(0)

\* C2: clean_data applied to its own output changes no Suburb value and
\* reports suburb_name_fixes = 0 (every output Suburb is already in its
\* trimmed, title-cased form).
C2_NormalizationIdempotent ==
    pc = "recleaned" =>
        /\ Len(df_reclean) = Len(df_clean)
        /\ \A i \in 1..Len(df_clean) : df_reclean[i].Suburb = df_clean[i].Suburb
        /\ stats_reclean.suburb_name_fixes = 0

\* C3: a raw record is absent from the cleaned output exactly when its land
\* size is <= 0 or > 50,000, and removed_invalid_landsize = removed_rows =
\* initial_rows - final_rows = the number of such records.
OutOfRangeIdx ==
    {r.idx : r \in {x \in RowsOf(df_raw) :
        NotNa(x.Landsize) /\ (x.Landsize[1] <= 0 \/ x.Landsize[1] > 50000)}}

C3_RejectedCountedOnce ==
    Cleaned =>
        /\ IdxOf(df_clean) = IdxOf(df_raw) \ OutOfRangeIdx
        /\ Len(df_clean) = Cardinality(IdxOf(df_clean))
        /\ stats.removed_invalid_landsize = Cardinality(OutOfRangeIdx)
        /\ stats.removed_invalid_landsize = stats.removed_rows
        /\ stats.removed_rows = stats.initial_rows - stats.final_rows
        /\ stats.initial_rows = Len(df_raw)
        /\ stats.final_rows = Len(df_clean)

C3_Witness ==
    /\ pc = "cleaned"
    /\ \E r \in RowsOf(df_raw) : r.Landsize = Val(0) /\ r.idx \notin IdxOf(df_clean)
    /\ \E r \in RowsOf(df_raw) : r.Landsize = Val(50000) /\ r.idx \in IdxOf(df_clean)
    /\ stats.removed_invalid_landsize = 1

-----------------------------------------------------------------------------
(* feature_engineering.py                                                   *)

\* df[f] = column: the row with the cell f set (added when absent)
WithCell(r, f, c) == [x \in DOMAIN r \cup {f} |-> IF x = f THEN c ELSE r[x]]

\* Series / Series: the quotient of two integers is held as <<num, den>>
CellDiv(a, b) == IF IsNa(a) \/ IsNa(b) THEN NaN ELSE Val(<<a[1], b[1]>>)

\* a date of the file is the text <<sep, first, second, third>>: three
\* numbers and the separator between them
IsLeap(y) == (y % 4 = 0 /\ y % 100 # 0) \/ y % 400 = 0
DaysIn(m, y) ==
    IF m = 2 THEN (IF IsLeap(y) THEN 29 ELSE 28)
    ELSE IF m \in {4, 6, 9, 11} THEN 30 ELSE 31

\* strptime with "%d/%m/%Y"
MatchesFormat(t) ==
    /\ t[1] = "/"
    /\ t[3] \in 1..12
    /\ t[2] \in 1..DaysIn(t[3], t[4])
    /\ t[4] \in 1..9999

\* pd.to_datetime(..., format="%d/%m/%Y"): a missing date becomes NaT
ToDatetime(c) ==
    IF IsNa(c) THEN NaN ELSE Val([day |-> c[1][2], month |-> c[1][3], year |-> c[1][4]])

DatesParse(t) == \A i \in 1..Len(t) : IsNa(t[i].Date) \/ MatchesFormat(t[i].Date[1])

\* .dt.to_period("Q").astype(str): "<year>Q<quarter>", "NaT" when missing
QuarterLabel(d) ==
    IF IsNa(d) THEN Val(<<"NaT">>)
    ELSE Val(<<d[1].year, "Q", (d[1].month + 2) \div 3>>)

DtYear(d) == IF IsNa(d) THEN NaN ELSE Val(d[1].year)
DtMonth(d) == IF IsNa(d) THEN NaN ELSE Val(d[1].month)

\* type_map; a code outside the map gives a missing label
TypeMap(c) ==
    IF c = Val("h") THEN Val("House")
    ELSE IF c = Val("u") THEN Val("Unit")
    ELSE IF c = Val("t") THEN Val("Townhouse")
    ELSE NaN

AddFeaturesRow(r) ==
    LET d == ToDatetime(r.Date)
        r1 == WithCell(r, "Price_per_sqm", CellDiv(r.Price, r.Landsize))
        r2 == WithCell(r1, "Date", d)
        r3 == WithCell(r2, "Year", DtYear(d))
        r4 == WithCell(r3, "Month", DtMonth(d))
        r5 == WithCell(r4, "Quarter", QuarterLabel(d))
    IN  WithCell(r5, "PropertyType", TypeMap(r.Type))

\* add_features, for a table whose dates parse
AddFeatures(t) == [i \in 1..Len(t) |-> AddFeaturesRow(t[i])]

\* plausible slip: no df.copy(), so the first assignment of add_features
\* lands in the caller's table
InputAfterAddFeatures_NoCopy(t) ==
    [i \in 1..Len(t) |-> WithCell(t[i], "Price_per_sqm", CellDiv(t[i].Price, t[i].Landsize))]

\* the caller's table after add_features(df): add_features works on df.copy()
InputAfterAddFeatures(t) == t

\* value_counts(): the distinct suburbs (missing ones dropped) ...
SuburbKeys(t) == {t[i].Suburb[1] : i \in {j \in 1..Len(t) : NotNa(t[j].Suburb)}}
\* ... each with the number of its rows
SuburbCount(t, e) == Cardinality({i \in 1..Len(t) : t[i].Suburb = Val(e)})
FirstSeen(t, e) == CHOOSE i \in 1..Len(t) : t[i].Suburb = Val(e) /\
                       \A j \in 1..(i - 1) : t[j].Suburb # Val(e)

PermsOf(S) ==
    {f \in [1..Cardinality(S) -> S] : \A x \in S : \E i \in DOMAIN f : f[i] = x}

\* plausible slip: value_counts(ascending=True)
CountOrdered_Ascending(t, a, b) == SuburbCount(t, a) <= SuburbCount(t, b)

\* a may stand before b in the result of sort_values(ascending=False)
CountOrdered(t, a, b) == SuburbCount(t, a) >= SuburbCount(t, b)

\* value_counts() sorts the counts with sort_values' default kind,
\* "quicksort", which is not a stable sort: the order of equal counts is
\* whatever the installed numpy produces.  Every order that is descending
\* in the count is an outcome.
ValueCountsOrders(t) ==
    {o \in PermsOf(SuburbKeys(t)) :
        \A i, j \in DOMAIN o : i < j => CountOrdered(t, o[i], o[j])}

\* .head(n), n >= 0
HeadN(o, n) == SubSeq(o, 1, IF n < Len(o) THEN n ELSE Len(o))

\* the lists get_top_suburbs(t, n) can return
GetTopSuburbs(t, n) == {HeadN(o, n) : o \in ValueCountsOrders(t)}

SeqToSet(q) == {q[i] : i \in 1..Len(q)}

\* plausible slip: the cohort filter left out, df_analysis = df.copy()
FilterIsIn_All(t, top) == t

\* df[df["Suburb"].isin(top)]
FilterIsIn(t, top) ==
    SelectSeq(t, LAMBDA r : NotNa(r.Suburb) /\ r.Suburb[1] \in SeqToSet(top))

\* the values of q in ascending order
RECURSIVE SortAsc(_)
SortAsc(q) ==
    IF q = <<>> THEN <<>>
    ELSE LET m == CHOOSE i \in 1..Len(q) : \A j \in 1..Len(q) : q[i] <= q[j]
         IN  <<q[m]>> \o SortAsc(SubSeq(q, 1, m - 1) \o SubSeq(q, m + 1, Len(q)))

\* plausible slip: the upper middle value taken for an even count
Median2_Upper(cells) ==
    LET present == SelectSeq(cells, NotNa)
        v == SortAsc([i \in 1..Len(present) |-> present[i][1]])
        n == Len(v)
    IN  IF n = 0 THEN NaN ELSE Val(2 * v[n \div 2 + 1])

\* Series.median(), doubled: missing values are skipped; NaN when none is left
Median2(cells) ==
    LET present == SelectSeq(cells, NotNa)
        v == SortAsc([i \in 1..Len(present) |-> present[i][1]])
        n == Len(v)
    IN  IF n = 0 THEN NaN
        ELSE IF n % 2 = 1 THEN Val(2 * v[(n + 1) \div 2])
        ELSE Val(v[n \div 2] + v[n \div 2 + 1])

Column(t, f) == [i \in 1..Len(t) |-> t[i][f]]
RowsOfSuburb(t, e) == SelectSeq(t, LAMBDA r : r.Suburb = Val(e))

\* plausible slip: df["Price"].median(), the median of the whole table
SuburbMedian2_Global(t, e) == Median2(Column(t, "Price"))

\* df.groupby("Suburb")["Price"].median(), the entry of suburb e, doubled
SuburbMedian2(t, e) == Median2(Column(RowsOfSuburb(t, e), "Price"))

\* (Price - Suburb_Median) / Suburb_Median as <<num, den>>, both doubled
PriceDeviation(price, med2) ==
    IF IsNa(price) \/ IsNa(med2) \/ (med2[1] = 0 /\ price[1] = 0) THEN NaN
    ELSE Val(<<2 * price[1] - med2[1], med2[1]>>)

AddOutlierRow(t, r) ==
    LET med2 == IF IsNa(r.Suburb) THEN NaN ELSE SuburbMedian2(t, r.Suburb[1])
    IN  WithCell(WithCell(r, "Suburb_Median", med2),
                 "Price_Deviation", PriceDeviation(r.Price, med2))

AddOutlierDetection(t) == [i \in 1..Len(t) |-> AddOutlierRow(t, t[i])]

\* deviation < -0.3 and deviation > 0.5 on <<num, den>>, den >= 0; den = 0
\* is a division by zero, which gives +inf or -inf by the sign of num
UnderpricedThreshold10 == -3
OverpricedThreshold10 == 5
IsUnderpriced(r) ==
    /\ NotNa(r.Price_Deviation)
    /\ IF r.Price_Deviation[1][2] = 0 THEN r.Price_Deviation[1][1] < 0
       ELSE 10 * r.Price_Deviation[1][1] < UnderpricedThreshold10 * r.Price_Deviation[1][2]
IsOverpriced(r) ==
    /\ NotNa(r.Price_Deviation)
    /\ IF r.Price_Deviation[1][2] = 0 THEN r.Price_Deviation[1][1] > 0
       ELSE 10 * r.Price_Deviation[1][1] > OverpricedThreshold10 * r.Price_Deviation[1][2]

\* to_csv(index=False) then read_csv: the index labels are not kept
CsvRoundTrip(t) == [i \in 1..Len(t) |-> WithCell(t[i], "idx", i - 1)]

DefaultTopN == 20

\* bounds of the cleaned file
MaxFeRows == 3
MaxSmallN == 2

FeSuburbs == {NaN, Val("A"), Val("B"), Val("C")}
FePrices == {NaN, Val(1), Val(4)}
GoodDate == Val(<<"/", 3, 4, 2016>>)

\* rows for the cohort rules: suburb and price vary
CohortRow == [Suburb : FeSuburbs, Price : FePrices, Landsize : {Val(1)},
              Date : {GoodDate}, Type : {Val("h")}]

\* main calls get_top_suburbs with n = 20; the smaller n make the cut
\* fall inside a table of MaxFeRows rows
TopNs == (0..MaxSmallN) \cup {DefaultTopN}

InitFe ==
    /\ pc = "fe_start"
    /\ cleaned_csv \in TablesOf(CohortRow, MaxFeRows)
    /\ top_n \in TopNs
    /\ df_featured = NoTable
    /\ top_suburbs = <<>>
    /\ df_analysis = NoTable
    /\ outliers = <<>>
    /\ analysis_csv = NoTable
    /\ df_raw = NoTable
    /\ CleanIdle
    /\ InsIdle
    /\ DashIdle

\* bound of the cleaned file for the date rules
MaxDateRows == 2

\* the date texts of the model: four that match "%d/%m/%Y", one with another
\* separator, one with day and month exchanged, one with a day its month
\* does not have
DateTexts == {<<"/", 3, 4, 2016>>, <<"/", 31, 12, 2016>>, <<"/", 1, 1, 2017>>,
              <<"/", 30, 9, 2017>>, <<"-", 3, 4, 2016>>, <<"/", 4, 13, 2016>>,
              <<"/", 31, 4, 2016>>}

\* rows for the date rules: suburb, date and type code vary; the date cell
\* of the file can be empty
DateRow == [Suburb : {Val("A"), Val("B")}, Price : {Val(4)}, Landsize : {Val(1)},
            Date : {NaN} \cup {Val(t) : t \in DateTexts},
            Type : {Val("h"), Val("x")}]

InitDates ==
    /\ pc = "fe_start"
    /\ cleaned_csv \in TablesOf(DateRow, MaxDateRows)
    /\ top_n = DefaultTopN
    /\ df_featured = NoTable
    /\ top_suburbs = <<>>
    /\ df_analysis = NoTable
    /\ outliers = <<>>
    /\ analysis_csv = NoTable
    /\ df_raw = NoTable
    /\ CleanIdle
    /\ InsIdle
    /\ DashIdle

\* df = add_features(df); a date that does not parse raises and ends main
FeAddFeatures ==
    /\ pc = "fe_start"
    /\ IF DatesParse(cleaned_csv)
       THEN df_featured' = AddFeatures(cleaned_csv) /\ pc' = "fe_featured"
       ELSE df_featured' = df_featured /\ pc' = "fe_failed"
    /\ cleaned_csv' = InputAfterAddFeatures(cleaned_csv)
    /\ UNCHANGED <<top_n, top_suburbs, df_analysis, outliers,
                   analysis_csv, varsClean, varsIns, varsDash>>

\* top_suburbs = get_top_suburbs(df, n)
FeTopSuburbs ==
    /\ pc = "fe_featured"
    /\ top_suburbs' \in GetTopSuburbs(df_featured, top_n)
    /\ pc' = "fe_ranked"
    /\ UNCHANGED <<cleaned_csv, top_n, df_featured, df_analysis, outliers, analysis_csv,
                   varsClean, varsIns, varsDash>>

\* df_analysis = df[df["Suburb"].isin(top_suburbs)].copy()
FeFilter ==
    /\ pc = "fe_ranked"
    /\ df_analysis' = FilterIsIn(df_featured, top_suburbs)
    /\ pc' = "fe_filtered"
    /\ UNCHANGED <<cleaned_csv, top_n, df_featured, top_suburbs, outliers, analysis_csv,
                   varsClean, varsIns, varsDash>>

\* df_analysis = add_outlier_detection(df_analysis), then the two counts
FeAnnotate ==
    /\ pc = "fe_filtered"
    /\ df_analysis' = AddOutlierDetection(df_analysis)
    /\ outliers' = <<Len(SelectSeq(df_analysis', IsUnderpriced)),
                     Len(SelectSeq(df_analysis', IsOverpriced))>>
    /\ pc' = "fe_annotated"
    /\ UNCHANGED <<cleaned_csv, top_n, df_featured, top_suburbs, analysis_csv, varsClean, varsIns, varsDash>>

\* df_analysis.to_csv(output_path, index=False)
FeSave ==
    /\ pc = "fe_annotated"
    /\ analysis_csv' = CsvRoundTrip(df_analysis)
    /\ pc' = "fe_saved"
    /\ UNCHANGED <<cleaned_csv, top_n, df_featured, top_suburbs, df_analysis, outliers,
                   varsClean, varsIns, varsDash>>

NextFe == FeAddFeatures \/ FeTopSuburbs \/ FeFilter \/ FeAnnotate \/ FeSave

SpecFe == InitFe /\ [][NextFe]_vars
SpecDates == InitDates /\ [][NextFe]_vars

-----------------------------------------------------------------------------
(* Claims about get_top_suburbs and add_outlier_detection                   *)

FeRanked == pc \in {"fe_ranked", "fe_filtered", "fe_annotated", "fe_saved"}
FeAnnotated == pc \in {"fe_annotated", "fe_saved"}

\* the ranking that orders equal counts by first appearance in the input
FirstSeenOrder(t) ==
    CHOOSE o \in ValueCountsOrders(t) :
        \A i, j \in DOMAIN o :
            (i < j /\ SuburbCount(t, o[i]) = SuburbCount(t, o[j]))
                => FirstSeen(t, o[i]) < FirstSeen(t, o[j])

\* C4 as stated: the result is the ranking by descending transaction count
\* with equal counts in first-encountered order, cut to its first n.
C4_TiesByFirstEncounter ==
    FeRanked => top_suburbs = HeadN(FirstSeenOrder(df_featured), top_n)

\* C4 amended: the result holds min(n, number of entities) distinct entities
\* of the input in non-increasing order of transaction count, and no entity
\* outside it has a strictly larger count than one inside it.
C4_TopByCount ==
    FeRanked =>
        LET keys == SuburbKeys(df_featured)
            top == SeqToSet(top_suburbs)
            cnt(e) == Cardinality({i \in 1..Len(df_featured) :
                                      df_featured[i].Suburb = <<e>>})
        IN  /\ top \subseteq keys
            /\ Cardinality(top) = Len(top_suburbs)
            /\ Len(top_suburbs) =
                   (IF top_n < Cardinality(keys) THEN top_n ELSE Cardinality(keys))
            /\ \A i, j \in 1..Len(top_suburbs) :
                   i < j => cnt(top_suburbs[i]) >= cnt(top_suburbs[j])
            /\ \A e \in keys \ top : \A x \in top : cnt(e) <= cnt(x)

C4_Witness ==
    /\ pc = "fe_ranked"
    /\ top_n = 2
    /\ Cardinality(SuburbKeys(df_featured)) = 3
    /\ top_suburbs = <<"B", "A">>
    /\ df_featured[1].Suburb = Val("A")

\* C6 as stated: when the cohort is a proper subset of the population, the
\* annotation of the unfiltered table gives some cohort record a
\* Suburb_Median other than the one the cohort-filtered table gives it
\* (stated for a cohort with a priced record and a priced record outside it).
CohortIsProperSubset == Len(FilterIsIn(df_featured, top_suburbs)) < Len(df_featured)
RowWithIdx(t, k) == t[CHOOSE i \in 1..Len(t) : t[i].idx = k]

C6_UnfilteredMediansDiffer ==
    (/\ FeAnnotated
     /\ CohortIsProperSubset
     /\ \E r \in RowsOf(df_analysis) : NotNa(r.Suburb_Median)
     /\ \E r \in RowsOf(df_featured) :
            r.idx \notin IdxOf(df_analysis) /\ NotNa(r.Suburb) /\ NotNa(r.Price))
    =>  \E r \in RowsOf(df_analysis) :
            RowWithIdx(AddOutlierDetection(df_featured), r.idx).Suburb_Median
                # r.Suburb_Median

\* C6 amended: every record of the cohort-filtered table gets the same
\* Suburb_Median and Price_Deviation whether the annotation runs on the
\* unfiltered table or on the cohort-filtered one; only records outside the
\* cohort are annotated by the first and not by the second.
C6_CohortMediansUnaffectedByFilter ==
    FeAnnotated =>
        /\ \A r \in RowsOf(df_analysis) :
               RowWithIdx(AddOutlierDetection(df_featured), r.idx) = r
        /\ IdxOf(df_analysis) =
               {r.idx : r \in {x \in RowsOf(df_featured) :
                   NotNa(x.Suburb) /\ x.Suburb[1] \in SeqToSet(top_suburbs)}}

C6_Witness ==
    /\ pc = "fe_annotated"
    /\ CohortIsProperSubset
    /\ \E r \in RowsOf(df_analysis) : r.Suburb_Median = Val(5)
    /\ \E r \in RowsOf(df_featured) :
           /\ r.idx \notin IdxOf(df_analysis)
           /\ r.Suburb = Val("B")
           /\ r.Price = Val(1)

\* the quarter number of month m: the least q with m <= 3 * q
QuarterOfMonth(m) == CHOOSE q \in 1..4 : 3 * (q - 1) < m /\ m <= 3 * q

FeFeatured == pc \in {"fe_featured", "fe_ranked", "fe_filtered", "fe_annotated", "fe_saved"}

\* C14: add_features gives one featured record per input record, in the same
\* order, none dropped or added; each featured record's Quarter is
\* "<year>Q<q>" with q = ceil(month / 3) of the record's transaction date,
\* and Year and Month are that date's year and month.
C14_OneRecordEachWithQuarter ==
    FeFeatured =>
        /\ Len(df_featured) = Len(cleaned_csv)
        /\ \A i \in 1..Len(cleaned_csv) :
               LET in == cleaned_csv[i]
                   out == df_featured[i]
               IN  /\ out.idx = in.idx
                   /\ \A f \in {"Suburb", "Price", "Landsize", "Type"} : out[f] = in[f]
                   /\ NotNa(in.Date)
                   /\ out.Year = Val(in.Date[1][4])
                   /\ out.Month = Val(in.Date[1][3])
                   /\ out.Quarter = Val(<<in.Date[1][4], "Q", QuarterOfMonth(in.Date[1][3])>>)

\* the date of a record is not a text of the form day/month/year
DateMismatch(c) == IsNa(c) \/ ~MatchesFormat(c[1])

\* C15: when the transaction date of some record does not match the
\* day/month/year format, add_features fails and main ends there: no featured
\* table is returned and no analysis file is written.
C15_MalformedDateAborts ==
    (\E r \in RowsOf(cleaned_csv) : DateMismatch(r.Date)) =>
        /\ pc \in {"fe_start", "fe_failed"}
        /\ df_featured = NoTable
        /\ df_analysis = NoTable
        /\ analysis_csv = NoTable

-----------------------------------------------------------------------------
(* generate_insights.py                                                     *)

\* groupby returns its keys sorted; the suburb names of the model, sorted
KeyOrder == <<"Glenroy", "Northcote", "Reservoir">>
GroupKeys(t) == SelectSeq(KeyOrder, LAMBDA e : e \in SuburbKeys(t))
KeyRank(e) == CHOOSE i \in 1..Len(KeyOrder) : KeyOrder[i] = e

\* .round(0) of a doubled median
RoundMedian2(m2) == IF IsNa(m2) THEN NaN ELSE Val(RoundHalfEven(m2[1], 2))

\* "mean" then .round(0): missing values are skipped
MeanRounded(cells) ==
    LET present == SelectSeq(cells, NotNa)
    IN  IF Len(present) = 0 THEN NaN
        ELSE Val(RoundHalfEven(SumSeq([i \in 1..Len(present) |-> present[i][1]]),
                               Len(present)))

\* "count": the number of values that are not missing
CountNotNa(cells) == Len(SelectSeq(cells, NotNa))

\* "first": the first value that is not missing
FirstNotNa(cells) ==
    LET present == SelectSeq(cells, NotNa)
    IN  IF Len(present) = 0 THEN NaN ELSE present[1]

\* the row of suburb e in df.groupby("Suburb").agg({...}).round(0),
\* with the index label reset_index() gives it
ComparisonRow(t, e) ==
    LET g == RowsOfSuburb(t, e)
    IN  [idx |-> Len(SelectSeq(GroupKeys(t), LAMBDA x : KeyRank(x) < KeyRank(e))),
         Suburb |-> Val(e),
         Median_Price |-> RoundMedian2(Median2(Column(g, "Price"))),
         Mean_Price |-> MeanRounded(Column(g, "Price")),
         Transaction_Count |-> Val(CountNotNa(Column(g, "Price"))),
         Median_Price_per_sqm |-> RoundMedian2(Median2(Column(g, "Price_per_sqm"))),
         Median_Rooms |-> RoundMedian2(Median2(Column(g, "Rooms"))),
         Distance_to_CBD |-> FirstNotNa(Column(g, "Distance"))]

\* plausible slip: sort_values(..., ascending=True)
MayPrecede_Ascending(a, b) == IsNa(b) \/ (NotNa(a) /\ a[1] <= b[1])

\* sort_values(ascending=False): a may stand before b; missing values last
MayPrecede(a, b) == IsNa(b) \/ (NotNa(a) /\ a[1] >= b[1])

\* the orders sort_values(f, ascending=False) can give the rows; it sorts
\* with "quicksort", so rows with equal values come in any order
SortedDescending(rows, f) ==
    {o \in PermsOf(rows) :
        \A i, j \in DOMAIN o : i < j => MayPrecede(o[i][f], o[j][f])}

\* the tables suburb_comparison(t) can return
SuburbComparison(t) ==
    SortedDescending({ComparisonRow(t, e) : e \in SuburbKeys(t)}, "Median_Price")

\* a percentage computed in floating point, rounded: <<0, n>> is n,
\* <<1, 0>> is +inf, <<-1, 0>> is -inf, and 0/0 is missing
RatioPct(num, den) ==
    IF den # 0 THEN Val(<<0, RoundHalfEven(100 * num, den)>>)
    ELSE IF num > 0 THEN Val(<<1, 0>>)
    ELSE IF num < 0 THEN Val(<<-1, 0>>)
    ELSE NaN

\* (hi - lo) / lo * 100, rounded, from two doubled medians
PremiumPct(hi2, lo2) ==
    IF IsNa(hi2) \/ IsNa(lo2) THEN NaN ELSE RatioPct(hi2[1] - lo2[1], lo2[1])

PctMayPrecede(a, b) ==
    IsNa(b) \/ (NotNa(a) /\ (a[1][1] > b[1][1] \/
                             (a[1][1] = b[1][1] /\ a[1][2] >= b[1][2])))

SortedByPremium(rows) ==
    {o \in PermsOf(rows) :
        \A i, j \in DOMAIN o : i < j => PctMayPrecede(o[i].Premium, o[j].Premium)}

\* groupby(["Suburb", f])["Price"].median().unstack(): the column of value v
\* exists when some row of a suburb has it, the row of suburb e exists when
\* some row of e has a value of f, and a cell without rows is missing
PivotHasColumn(t, f, v) == \E i \in 1..Len(t) : NotNa(t[i].Suburb) /\ t[i][f] = Val(v)
PivotKeys(t, f) == {e \in SuburbKeys(t) : \E r \in RowsOf(RowsOfSuburb(t, e)) : NotNa(r[f])}
PivotCell2(t, e, f, v) ==
    Median2(Column(SelectSeq(RowsOfSuburb(t, e), LAMBDA r : r[f] = Val(v)), "Price"))

\* the pivot row of suburb e with the premium of column hi over column lo
PremiumRow(t, e, f, hi, lo) ==
    [Suburb |-> e,
     Hi |-> PivotCell2(t, e, f, hi),
     Lo |-> PivotCell2(t, e, f, lo),
     Premium |-> PremiumPct(PivotCell2(t, e, f, hi), PivotCell2(t, e, f, lo))]

\* plausible slip: dropna(subset=[hi]) alone
KeptByDropna_HiOnly(r) == NotNa(r.Hi)

\* dropna(subset=[hi, lo])
KeptByDropna(r) == NotNa(r.Hi) /\ NotNa(r.Lo)

PremiumTables(t, f, hi, lo) ==
    SortedByPremium({r \in {PremiumRow(t, e, f, hi, lo) : e \in PivotKeys(t, f)} :
                        KeptByDropna(r)})

\* pivot["House"] and pivot["Unit"] raise KeyError for a column that is absent
TypePremiumRaises(t) ==
    ~(PivotHasColumn(t, "PropertyType", "House") /\ PivotHasColumn(t, "PropertyType", "Unit"))

\* the tables property_type_premium(t) can return (Hi is House, Lo is Unit,
\* Premium is House_vs_Unit_Premium)
PropertyTypePremium(t) == PremiumTables(t, "PropertyType", "House", "Unit")

\* the tables bedroom_premium(t) can return (Hi is column 4, Lo is column 3,
\* Premium is 4BR_vs_3BR_Premium); an empty table when a column is absent
BedroomPremium(t) ==
    LET houses == SelectSeq(t, LAMBDA r : r.PropertyType = Val("House"))
    IN  IF PivotHasColumn(houses, "Rooms", 3) /\ PivotHasColumn(houses, "Rooms", 4)
        THEN PremiumTables(houses, "Rooms", 4, 3)
        ELSE {<<>>}

\* the configured comparisons of value_suburb_gaps
Comparisons ==
    [Reservoir_vs_Northcote |-> [value_suburb |-> "Reservoir", premium_suburb |-> "Northcote"],
     Glenroy_vs_MooneePonds |-> [value_suburb |-> "Glenroy", premium_suburb |-> "Moonee Ponds"],
     Coburg_vs_Brunswick |-> [value_suburb |-> "Coburg", premium_suburb |-> "Brunswick"]]

\* suburb_stats.get(e, 0): the doubled median, 0 for a suburb not in the table
StatsGet(t, e) == IF e \in SuburbKeys(t) THEN SuburbMedian2(t, e) ELSE Val(0)

\* comp["premium_price"] > 0
PremiumPositive(t, c) ==
    NotNa(StatsGet(t, c.premium_suburb)) /\ StatsGet(t, c.premium_suburb)[1] > 0

\* round() of a NaN raises ValueError
GapsRaises(t) ==
    \E k \in DOMAIN Comparisons :
        PremiumPositive(t, Comparisons[k]) /\ IsNa(StatsGet(t, Comparisons[k].value_suburb))

\* one entry of the dict value_suburb_gaps returns; the key discount_pct is
\* set only under the guard
GapEntry(t, c) ==
    LET v == StatsGet(t, c.value_suburb)
        p == StatsGet(t, c.premium_suburb)
        base == [value_suburb |-> c.value_suburb, premium_suburb |-> c.premium_suburb,
                 value_price |-> v, premium_price |-> p]
    IN  IF PremiumPositive(t, c)
        THEN WithCell(base, "discount_pct", RoundHalfEven(100 * (p[1] - v[1]), p[1]))
        ELSE base

ValueSuburbGaps(t) == [k \in DOMAIN Comparisons |-> GapEntry(t, Comparisons[k])]

\* main's print of one gap: comp.get('discount_pct', 0)
GapLine(comp) ==
    [value_suburb |-> comp.value_suburb,
     value_price |-> comp.value_price,
     discount_pct |-> IF "discount_pct" \in DOMAIN comp THEN comp.discount_pct ELSE 0,
     premium_suburb |-> comp.premium_suburb]

\* a label of dt.to_period("Q").astype(str): <<year, "Q", q>> is "<year>Q<q>"
\* and <<"NaT">> is "NaT"; the order of two labels as strings (years of four
\* digits)
QuarterBefore(a, b) ==
    IF Len(a) = 1 THEN FALSE
    ELSE IF Len(b) = 1 THEN TRUE
    ELSE a[1] < b[1] \/ (a[1] = b[1] /\ a[3] < b[3])

\* the keys of groupby("Quarter"): a record without a label is in no group
QuarterKeys(t) == {t[i].Quarter[1] : i \in {j \in 1..Len(t) : NotNa(t[j].Quarter)}}

RowsOfQuarter(t, q) == SelectSeq(t, LAMBDA r : r.Quarter = Val(q))

\* the keys of groupby("Quarter") in its order, sorted
QuarterOrder(t) ==
    LET keys == QuarterKeys(t)
    IN  [i \in 1..Cardinality(keys) |->
            CHOOSE q \in keys :
                Cardinality({k \in keys : QuarterBefore(k, q)}) = i - 1]

\* the row of quarter q in df.groupby("Quarter").agg({...}).round(0),
\* with the index label reset_index() gives it
QuarterlyRow(t, q) ==
    LET g == RowsOfQuarter(t, q)
    IN  [idx |-> Cardinality({k \in QuarterKeys(t) : QuarterBefore(k, q)}),
         Quarter |-> Val(q),
         Median_Price |-> RoundMedian2(Median2(Column(g, "Price"))),
         Mean_Price |-> MeanRounded(Column(g, "Price")),
         Transaction_Count |-> Val(CountNotNa(Column(g, "Price"))),
         Median_Price_per_sqm |-> RoundMedian2(Median2(Column(g, "Price_per_sqm")))]

QuarterlyTrends(t) ==
    LET keys == QuarterOrder(t)
    IN  [i \in 1..Len(keys) |-> QuarterlyRow(t, keys[i])]

\* the two quarters main compares
Q2_2016 == <<2016, "Q", 2>>
Q3_2017 == <<2017, "Q", 3>>

\* quarterly[quarterly["Quarter"] == q]["Median_Price"].values
MedianPriceValues(qt, q) ==
    LET hit == SelectSeq(qt, LAMBDA r : r.Quarter = Val(q))
    IN  [i \in 1..Len(hit) |-> hit[i].Median_Price]

\* .values[0] raises IndexError on an empty array
LookupRaises(qt, q) == Len(MedianPriceValues(qt, q)) = 0

\* plausible slip: the growth taken over the later quarter's median
MarketGrowth_OverLater(q2, q3) ==
    IF IsNa(q2) \/ IsNa(q3) THEN NaN
    ELSE Val(<<(q3[1] - q2[1]) * 100, q3[1]>>)

\* (q3_2017 - q2_2016) / q2_2016 * 100, held as <<numerator, denominator>>
MarketGrowth(q2, q3) ==
    IF IsNa(q2) \/ IsNa(q3) THEN NaN
    ELSE Val(<<(q3[1] - q2[1]) * 100, q2[1]>>)

\* bounds of the analysis file
MaxAggRows == 3
MaxInsRows == 3
MaxTrendRows == 3

\* rows for suburb_comparison: suburb and price vary
AggRow == [Suburb : {NaN, Val("Glenroy"), Val("Northcote"), Val("Reservoir")},
           Price : {NaN, Val(1), Val(2), Val(4)},
           Price_per_sqm : {Val(1)}, Rooms : {Val(3)}, Distance : {Val(5)},
           PropertyType : {Val("House")}]

\* rows for the premium tables: price, property type and rooms vary
PremiumInputRow == [Suburb : {Val("Northcote"), Val("Reservoir")},
                    Price : {NaN, Val(3), Val(4)},
                    Price_per_sqm : {Val(1)}, Rooms : {Val(3), Val(4)},
                    Distance : {Val(5)}, Quarter : {Val(Q2_2016)},
                    PropertyType : {Val("House"), Val("Unit")}]

\* rows for the gaps: suburb and price vary, a price can be 0
GapInputRow == [Suburb : {NaN, Val("Northcote"), Val("Reservoir")},
                Price : {NaN, Val(0), Val(3), Val(4)},
                Price_per_sqm : {Val(1)}, Rooms : {Val(3)},
                Distance : {Val(5)}, Quarter : {Val(Q2_2016)},
                PropertyType : {Val("House"), Val("Unit")}]

\* rows for the market trend: price, quarter and property type vary
TrendRow == [Suburb : {Val("Northcote")},
             Price : {NaN, Val(5), Val(6)},
             Price_per_sqm : {Val(1)}, Rooms : {Val(3)}, Distance : {Val(5)},
             Quarter : {Val(Q2_2016), Val(<<2017, "Q", 1>>), Val(Q3_2017)},
             PropertyType : {Val("House"), Val("Unit")}]

InitOthersIdle ==
    /\ df_raw = NoTable
    /\ CleanIdle
    /\ FeIdle
    /\ DashIdle

InsResultsEmpty ==
    /\ comparison = NoTable
    /\ gaps = <<>>
    /\ gap_lines = <<>>
    /\ type_premium = NoTable
    /\ br_premium = NoTable
    /\ quarterly = NoTable
    /\ growth = <<>>

InitAgg ==
    /\ pc = "agg_start"
    /\ ins_df \in TablesOf(AggRow, MaxAggRows)
    /\ InsResultsEmpty
    /\ InitOthersIdle

InitInsights ==
    /\ pc = "ins_start"
    /\ ins_df \in TablesOf(PremiumInputRow, MaxInsRows)
    /\ InsResultsEmpty
    /\ InitOthersIdle

InitGaps ==
    /\ pc = "ins_start"
    /\ ins_df \in TablesOf(GapInputRow, MaxInsRows)
    /\ InsResultsEmpty
    /\ InitOthersIdle

InitTrend ==
    /\ pc = "ins_start"
    /\ ins_df \in TablesOf(TrendRow, MaxTrendRows)
    /\ InsResultsEmpty
    /\ InitOthersIdle

\* a call of suburb_comparison on the analysis table
AggSuburbComparison ==
    /\ pc = "agg_start"
    /\ comparison' \in SuburbComparison(ins_df)
    /\ pc' = "agg_done"
    /\ UNCHANGED <<ins_df, gaps, gap_lines, type_premium, br_premium, quarterly, growth, varsClean,
                   varsFe, varsDash>>

NextAgg == AggSuburbComparison

\* main, "1. UNDERVALUED SUBURBS": gaps = value_suburb_gaps(df) and its prints
InsGaps ==
    /\ pc = "ins_start"
    /\ IF GapsRaises(ins_df)
       THEN pc' = "ins_failed" /\ UNCHANGED <<gaps, gap_lines>>
       ELSE /\ gaps' = ValueSuburbGaps(ins_df)
            /\ gap_lines' = [k \in DOMAIN Comparisons |-> GapLine(gaps'[k])]
            /\ pc' = "ins_gaps"
    /\ UNCHANGED <<ins_df, comparison, type_premium, br_premium, quarterly, growth, varsClean,
                   varsFe, varsDash>>

\* main, "2. HOUSE VS UNIT PREMIUMS": type_premium = property_type_premium(df)
InsTypePremium ==
    /\ pc = "ins_gaps"
    /\ IF TypePremiumRaises(ins_df)
       THEN pc' = "ins_failed" /\ UNCHANGED type_premium
       ELSE /\ type_premium' \in PropertyTypePremium(ins_df)
            /\ pc' = "ins_types"
    /\ UNCHANGED <<ins_df, comparison, gaps, gap_lines, br_premium, quarterly, growth, varsClean,
                   varsFe, varsDash>>

\* main, "3. 4BR VS 3BR PREMIUMS": br_premium = bedroom_premium(df)
InsBedroomPremium ==
    /\ pc = "ins_types"
    /\ br_premium' \in BedroomPremium(ins_df)
    /\ pc' = "ins_bedrooms"
    /\ UNCHANGED <<ins_df, comparison, gaps, gap_lines, type_premium, quarterly, growth, varsClean,
                   varsFe, varsDash>>

\* main, "4. MARKET TREND": quarterly = quarterly_trends(df), the two lookups,
\* growth; a quarter that is not in the table ends main with IndexError
InsMarketTrend ==
    /\ pc = "ins_bedrooms"
    /\ quarterly' = QuarterlyTrends(ins_df)
    /\ IF LookupRaises(quarterly', Q2_2016) \/ LookupRaises(quarterly', Q3_2017)
       THEN pc' = "ins_lookup_failed" /\ UNCHANGED growth
       ELSE /\ growth' = MarketGrowth(MedianPriceValues(quarterly', Q2_2016)[1],
                                      MedianPriceValues(quarterly', Q3_2017)[1])
            /\ pc' = "ins_done"
    /\ UNCHANGED <<ins_df, comparison, gaps, gap_lines, type_premium, br_premium,
                   varsClean, varsFe, varsDash>>

NextInsights == InsGaps \/ InsTypePremium \/ InsBedroomPremium \/ InsMarketTrend

SpecAgg == InitAgg /\ [][NextAgg]_vars
SpecInsights == InitInsights /\ [][NextInsights]_vars
SpecGaps == InitGaps /\ [][NextInsights]_vars
SpecTrend == InitTrend /\ [][NextInsights]_vars

-----------------------------------------------------------------------------
(* Claims about the aggregate tables and the insights                       *)

RecordsOf(t, e) == {i \in 1..Len(t) : t[i].Suburb = <<e>>}

\* C7: for every entity, the Transaction_Count of its row in the table of
\* suburb_comparison is the number of records of that entity in the input,
\* records with a missing price included.
C7_CountEqualsRecords ==
    pc = "agg_done" =>
        \A r \in RowsOf(comparison) :
            r.Transaction_Count = <<Cardinality(RecordsOf(ins_df, r.Suburb[1]))>>

\* C9: the table of suburb_comparison has exactly one row per entity of its
\* input, and its rows are in non-increasing order of median price (entities
\* without a median price come last).
C9_OneRowPerEntitySortedByMedian ==
    pc = "agg_done" =>
        /\ {r.Suburb[1] : r \in RowsOf(comparison)} = SuburbKeys(ins_df)
        /\ Len(comparison) = Cardinality(SuburbKeys(ins_df))
        /\ \A i, j \in 1..Len(comparison) :
               i < j =>
                   /\ comparison[i].Median_Price = <<>> => comparison[j].Median_Price = <<>>
                   /\ (comparison[i].Median_Price # <<>> /\ comparison[j].Median_Price # <<>>)
                          => comparison[i].Median_Price[1] >= comparison[j].Median_Price[1]

C9_Witness ==
    /\ pc = "agg_done"
    /\ Len(comparison) = 3
    /\ comparison[1].Suburb = Val("Reservoir") /\ comparison[1].Median_Price = Val(4)
    /\ comparison[2].Suburb = Val("Glenroy") /\ comparison[2].Median_Price = Val(1)
    /\ comparison[3].Suburb = Val("Northcote") /\ comparison[3].Median_Price = NaN

TypeTableReturned == pc \in {"ins_types", "ins_bedrooms"}
BedroomTableReturned == pc = "ins_bedrooms"
TableSuburbs(t) == {r.Suburb : r \in RowsOf(t)}
AllRowsDefined(t) == \A r \in RowsOf(t) : r.Hi # <<>> /\ r.Lo # <<>>

HasTransaction(e, type) ==
    \E r \in RowsOf(ins_df) : r.Suburb = <<e>> /\ r.PropertyType = <<type>>
HasHouseWithRooms(e, n) ==
    \E r \in RowsOf(ins_df) :
        r.Suburb = <<e>> /\ r.PropertyType = <<"House">> /\ r.Rooms = <<n>>
HasPricedTransaction(e, type) ==
    \E r \in RowsOf(ins_df) :
        r.Suburb = <<e>> /\ r.PropertyType = <<type>> /\ r.Price # <<>>
HasPricedHouseWithRooms(e, n) ==
    \E r \in RowsOf(ins_df) :
        /\ r.Suburb = <<e>> /\ r.PropertyType = <<"House">> /\ r.Rooms = <<n>>
        /\ r.Price # <<>>

PremiumAbsentOrZero(c) ==
    \/ c.premium_suburb \notin SuburbKeys(ins_df)
    \/ Median2(Column(RowsOfSuburb(ins_df, c.premium_suburb), "Price")) = <<0>>

C10_MissingDiscountNotZero ==
    (/\ pc \in {"ins_gaps", "ins_types", "ins_bedrooms"}
     /\ \E r \in RowsOf(ins_df) : r.Suburb = <<"Reservoir">> /\ r.Price # <<>>) =>
        \A k \in DOMAIN Comparisons :
            /\ PremiumAbsentOrZero(Comparisons[k]) =>
                   /\ "discount_pct" \notin DOMAIN gaps[k]
                   /\ gap_lines[k].discount_pct # 0
            /\ (/\ Comparisons[k].value_suburb \in SuburbKeys(ins_df)
                /\ Comparisons[k].premium_suburb \in SuburbKeys(ins_df)
                /\ gaps[k].premium_price # <<>>
                /\ gaps[k].premium_price[1] > 0)
               => /\ "discount_pct" \in DOMAIN gaps[k]
                  /\ gap_lines[k].discount_pct = gaps[k].discount_pct
                  /\ 2 * (gaps[k].discount_pct * gaps[k].premium_price[1]
                          - 100 * (gaps[k].premium_price[1] - gaps[k].value_price[1]))
                         \in (0 - gaps[k].premium_price[1])..gaps[k].premium_price[1]

-----------------------------------------------------------------------------
(* create_dashboard.py: create_quarterly_trends                             *)

\* the row of quarter q in df.groupby('Quarter').agg({...}).round(0) under
\* the column names of the dashboard
DashQuarterlyRow(t, q) ==
    LET g == RowsOfQuarter(t, q)
    IN  [Quarter |-> Val(q),
         Median_Price |-> RoundMedian2(Median2(Column(g, "Price"))),
         Mean_Price |-> MeanRounded(Column(g, "Price")),
         Volume |-> Val(CountNotNa(Column(g, "Price"))),
         Price_per_sqm |-> RoundMedian2(Median2(Column(g, "Price_per_sqm")))]

\* quarterly.reset_index().sort_values('Quarter')
DashQuarterly(t) ==
    LET keys == QuarterOrder(t)
    IN  [i \in 1..Len(keys) |-> DashQuarterlyRow(t, keys[i])]

\* ffill: a missing value takes the last value before it that is present
PadForward(cells) ==
    [i \in 1..Len(cells) |->
        IF NotNa(cells[i]) \/ \A j \in 1..i : IsNa(cells[j]) THEN cells[i]
        ELSE cells[CHOOSE j \in 1..i :
                     NotNa(cells[j]) /\ \A k \in (j + 1)..i : IsNa(cells[k])]]

\* cur / prev - 1, held as <<numerator, denominator>> of (cur - prev) / prev
ChangeOver(prev, cur) ==
    IF IsNa(prev) \/ IsNa(cur) \/ (prev[1] = 0 /\ cur[1] = 0) THEN NaN
    ELSE Val(<<cur[1] - prev[1], prev[1]>>)

\* Series.pct_change(): data / data.shift(1) - 1; pad tells whether this
\* pandas fills missing values forward first (fill_method='pad', the default
\* before pandas 3) or not
PctChange(cells, pad) ==
    LET data == IF pad THEN PadForward(cells) ELSE cells
    IN  [i \in 1..Len(cells) |->
            IF i = 1 THEN NaN ELSE ChangeOver(data[i - 1], data[i])]

\* row['QoQ_Growth'] if pd.notna(row['QoQ_Growth']) else 0
GrowthCell(g) == IF NotNa(g) THEN g ELSE Val(<<0, 1>>)

\* the data rows written to the "Market Trends" sheet, from row 4 on
TrendSheetRows(t, pad) ==
    LET q == DashQuarterly(t)
        g == PctChange(Column(q, "Median_Price"), pad)
    IN  [i \in 1..Len(q) |-> WithCell(q[i], "QoQ_Growth", GrowthCell(g[i]))]

\* bound of the analysis file the dashboard reads
MaxDashRows == 3

\* rows for the dashboard: price and quarter vary
DashRow == [Suburb : {Val("Northcote")},
            Price : {NaN, Val(5), Val(6)},
            Price_per_sqm : {Val(1)},
            Quarter : {NaN, Val(<<2016, "Q", 4>>), Val(<<2017, "Q", 1>>),
                       Val(<<2017, "Q", 3>>)}]

InitDash ==
    /\ pc = "dash_start"
    /\ dash_df \in TablesOf(DashRow, MaxDashRows)
    /\ trend_sheet = NoTable
    /\ df_raw = NoTable
    /\ CleanIdle
    /\ FeIdle
    /\ InsIdle

\* a call of create_quarterly_trends(wb, df)
DashQuarterlyTrends ==
    /\ pc = "dash_start"
    /\ \E pad \in BOOLEAN : trend_sheet' = TrendSheetRows(dash_df, pad)
    /\ pc' = "dash_trends"
    /\ UNCHANGED <<dash_df, varsClean, varsFe, varsIns>>

NextDash == DashQuarterlyTrends

SpecDash == InitDash /\ [][NextDash]_vars

-----------------------------------------------------------------------------
(* The four scripts side by side: a run is a run of one of them             *)

InitFrame == InitClean \/ InitDates \/ InitAgg \/ InitTrend \/ InitDash

NextFrame == NextClean \/ NextFe \/ NextAgg \/ NextInsights \/ NextDash

SpecFrame == InitFrame /\ [][NextFrame]_vars

-----------------------------------------------------------------------------
(* Claims about the quarterly tables and the growth figures                 *)

\* the doubled median of the cells that are present, by counting: the sum of
\* the lower and the upper middle value
MedianTwice(cells) ==
    LET P == {i \in 1..Len(cells) : NotNa(cells[i])}
        n == Cardinality(P)
        kth(k) == CHOOSE v \in {cells[i][1] : i \in P} :
                      /\ Cardinality({i \in P : cells[i][1] < v}) < k
                      /\ Cardinality({i \in P : cells[i][1] <= v}) >= k
    IN  IF n = 0 THEN NaN ELSE Val(kth((n + 1) \div 2) + kth(n \div 2 + 1))

QuarterPrices(t, q) == Column(SelectSeq(t, LAMBDA r : r.Quarter = Val(q)), "Price")
QuarterAbsent(t, q) == \A r \in RowsOf(t) : r.Quarter # Val(q)

\* the median price the by-quarter table shows for q: whole dollars
TableMedian(t, q) == RoundMedian2(MedianTwice(QuarterPrices(t, q)))

C12_FirstGrowthUndefined ==
    (/\ pc = "dash_trends"
     /\ \A r \in RowsOf(dash_df) : NotNa(r.Price) /\ NotNa(r.Quarter)) =>
        LET n == Len(trend_sheet)
        IN  /\ {trend_sheet[i].Quarter[1] : i \in 1..n} = QuarterKeys(dash_df)
            /\ \A i, j \in 1..n :
                   i < j => QuarterBefore(trend_sheet[i].Quarter[1],
                                          trend_sheet[j].Quarter[1])
            /\ \A i \in 2..n :
                   LET prev == TableMedian(dash_df, trend_sheet[i - 1].Quarter[1])
                       cur == TableMedian(dash_df, trend_sheet[i].Quarter[1])
                   IN  (NotNa(prev) /\ NotNa(cur)) =>
                           /\ NotNa(trend_sheet[i].QoQ_Growth)
                           /\ trend_sheet[i].QoQ_Growth[1][2] # 0
                           /\ trend_sheet[i].QoQ_Growth[1][1] * prev[1]
                                  = (cur[1] - prev[1]) * trend_sheet[i].QoQ_Growth[1][2]
            /\ n >= 1 => IsNa(trend_sheet[1].QoQ_Growth)

\* the doubled full-precision median price of the records of suburb e whose
\* field f holds v
GroupMedianTwice(t, e, f, v) ==
    MedianTwice(Column(SelectSeq(t, LAMBDA r : r.Suburb = Val(e) /\ r[f] = Val(v)),
                       "Price"))

\* pct is the percentage (hi2 - lo2) / lo2 * 100 rounded to a whole number
IsRoundedPremium(pct, hi2, lo2) ==
    /\ NotNa(pct)
    /\ pct[1][1] = 0
    /\ 2 * (pct[1][2] * lo2[1] - 100 * (hi2[1] - lo2[1])) \in (0 - lo2[1])..lo2[1]

\* C13: rounding comes last: the medians shown in the by-quarter table are
\* rounded to whole dollars, and every chained ratio (the market growth
\* between the two quarters, the house-vs-unit premium, the 4BR-vs-3BR
\* premium) equals the ratio of the full-precision medians (stated for an
\* input whose records all have a price).
C13_RatiosFromUnroundedMedians ==
    (pc = "ins_done" /\ \A r \in RowsOf(ins_df) : NotNa(r.Price)) =>
        /\ \A r \in RowsOf(quarterly) :
               r.Median_Price = RoundMedian2(MedianTwice(QuarterPrices(ins_df, r.Quarter[1])))
        /\ \A r \in RowsOf(type_premium) :
               IsRoundedPremium(r.Premium,
                                GroupMedianTwice(ins_df, r.Suburb, "PropertyType", "House"),
                                GroupMedianTwice(ins_df, r.Suburb, "PropertyType", "Unit"))
        /\ \A r \in RowsOf(br_premium) :
               IsRoundedPremium(r.Premium,
                                GroupMedianTwice(ins_df, r.Suburb, "Rooms", 4),
                                GroupMedianTwice(ins_df, r.Suburb, "Rooms", 3))
        /\ LET m2 == MedianTwice(QuarterPrices(ins_df, Q2_2016))
               m3 == MedianTwice(QuarterPrices(ins_df, Q3_2017))
           IN  /\ NotNa(growth)
               /\ growth[1][1] * m2[1] = 100 * (m3[1] - m2[1]) * growth[1][2]

-----------------------------------------------------------------------------
(* Claims about the order of the stages and about what each stage leaves    *)
(* alone                                                                    *)

IsAnnotated(t) == \E r \in RowsOf(t) : "Suburb_Median" \in DOMAIN r
InCohort(r) == NotNa(r.Suburb) /\ r.Suburb[1] \in SeqToSet(top_suburbs)

\* the steps of main in feature_engineering.py, in their order
StageOrder ==
    {<<"fe_start", "fe_featured">>, <<"fe_start", "fe_failed">>,
     <<"fe_featured", "fe_ranked">>, <<"fe_ranked", "fe_filtered">>,
     <<"fe_filtered", "fe_annotated">>, <<"fe_annotated", "fe_saved">>}

\* C16: in every run of feature_engineering the stages come in the order
\* featured, cohort selection over the whole featured table, cohort filter,
\* deviation annotation, persist: no table is annotated before the filter,
\* the cohort is computed once and never again, and the persisted table
\* holds exactly the featured records whose suburb is in the top-N list.
C16_StagesInOrder ==
    /\ [](/\ ~IsAnnotated(df_featured)
          /\ IsAnnotated(df_analysis) => pc \in {"fe_annotated", "fe_saved"}
          /\ pc \in {"fe_filtered", "fe_annotated", "fe_saved"} =>
                 IdxOf(df_analysis) = {r.idx : r \in {x \in RowsOf(df_featured) : InCohort(x)}}
          /\ pc \in {"fe_annotated", "fe_saved"} =>
                 \A r \in RowsOf(df_analysis) : "Suburb_Median" \in DOMAIN r
          /\ pc = "fe_saved" =>
                 /\ Len(analysis_csv) = Len(df_analysis)
                 /\ \A r \in RowsOf(analysis_csv) :
                        InCohort(r) /\ "Suburb_Median" \in DOMAIN r
          /\ pc # "fe_saved" => analysis_csv = NoTable)
    /\ [][/\ <<pc, pc'>> \in StageOrder
          /\ top_suburbs' # top_suburbs => pc = "fe_featured"
          /\ pc = "fe_featured" =>
                 LET cnt(e) == Cardinality({i \in 1..Len(df_featured) :
                                               df_featured[i].Suburb = <<e>>})
                     top == SeqToSet(top_suburbs')
                 IN  /\ top \subseteq SuburbKeys(df_featured)
                     /\ \A e \in SuburbKeys(df_featured) \ top :
                            \A x \in top : cnt(e) <= cnt(x)]_vars

\* three featured records, a cohort of one suburb, two records persisted
C16_Witness ==
    /\ pc = "fe_saved"
    /\ top_n = 1
    /\ Len(df_featured) = 3
    /\ Len(analysis_csv) = 2
    /\ \A r \in RowsOf(analysis_csv) : r.Suburb = Val(top_suburbs[1])

\* the prices of the records of df_analysis that have the suburb of r
SameEntityPrices(r) ==
    Column(SelectSeq(df_analysis, LAMBDA x : x.Suburb = r.Suburb), "Price")

\* the deviation of r recomputed from its Price and its Suburb_Median
DeviationOf(r) ==
    IF IsNa(r.Price) \/ IsNa(r.Suburb_Median) THEN NaN
    ELSE Val(<<2 * r.Price[1] - r.Suburb_Median[1], r.Suburb_Median[1]>>)

\* deviation < -0.30 and deviation > 0.50 for a deviation <<num, den>>, den > 0
Below30(d) == NotNa(d) /\ 10 * d[1][1] < (0 - 3) * d[1][2]
Above50(d) == NotNa(d) /\ 10 * d[1][1] > 5 * d[1][2]

\* C17 as stated: every record of the annotated table has a Suburb_Median,
\* the median price of the records of that table with the same suburb, which
\* is always defined because the record is a cohort member; Price_Deviation
\* is (price - Suburb_Median) / Suburb_Median; no record is both underpriced
\* and overpriced.
C17_MedianDefinedForCohort ==
    FeAnnotated =>
        \A r \in RowsOf(df_analysis) :
            /\ NotNa(r.Suburb_Median)
            /\ r.Suburb_Median = MedianTwice(SameEntityPrices(r))
            /\ r.Price_Deviation = DeviationOf(r)
            /\ ~(Below30(r.Price_Deviation) /\ Above50(r.Price_Deviation))

\* C17 amended: Suburb_Median is the median price of the records of the
\* annotated table with the same suburb and is defined exactly when one of
\* them has a price; a cohort suburb can have none, and then Suburb_Median
\* and Price_Deviation of its records are missing; Price_Deviation is
\* (price - Suburb_Median) / Suburb_Median when both are defined and missing
\* otherwise; the two counts of main are those of the records below -0.30
\* and above 0.50, and no record is in both.
C17_MedianOfSameEntity ==
    FeAnnotated =>
        /\ \A r \in RowsOf(df_analysis) :
               /\ r.Suburb_Median = MedianTwice(SameEntityPrices(r))
               /\ NotNa(r.Suburb_Median) <=>
                      \E i \in 1..Len(SameEntityPrices(r)) : NotNa(SameEntityPrices(r)[i])
               /\ r.Price_Deviation = DeviationOf(r)
               /\ ~(Below30(r.Price_Deviation) /\ Above50(r.Price_Deviation))
        /\ outliers = <<Cardinality({i \in 1..Len(df_analysis) :
                                        Below30(df_analysis[i].Price_Deviation)}),
                        Cardinality({i \in 1..Len(df_analysis) :
                                        Above50(df_analysis[i].Price_Deviation)})>>

\* suburb A at 1 and 4 (median 2.5, the record at 4 is 60% above, the record
\* at 1 is 60% below), suburb B in the cohort without a price
C17_Witness ==
    /\ pc = "fe_annotated"
    /\ Len(df_analysis) = 3
    /\ \E r \in RowsOf(df_analysis) :
           r.Suburb = Val("B") /\ IsNa(r.Suburb_Median) /\ IsNa(r.Price_Deviation)
    /\ \E r \in RowsOf(df_analysis) :
           r.Suburb = Val("A") /\ r.Suburb_Median = Val(5) /\ r.Price_Deviation = Val(<<3, 5>>)
    /\ outliers = <<1, 1>>

\* the fields add_features derives
DerivedFields == {"Price_per_sqm", "Year", "Month", "Quarter", "PropertyType"}

\* t2 holds the records of t1 in their order, each with the cells it had
ExtendsTable(t1, t2) ==
    /\ Len(t2) = Len(t1)
    /\ \A i \in 1..Len(t1) : \A f \in DOMAIN t1[i] : t2[i][f] = t1[i][f]

====
